---- MODULE Spec2Model ----
(***************************************************************************)
(* Model of plat_map_crawler.py: the reference extractor, the fetch        *)
(* gateway download_pdf, the BFS traversal crawl_plat_maps, the sequential *)
(* prober systematic_discovery and the four-phase hybrid_crawl_community.  *)
(*                                                                         *)
(* A map ID "ccc-nn" is the pair <<c, n>> of its community number and its  *)
(* sequence number.  The community is always written with three digits    *)
(* and the sequence with at least two (f"{n:02d}"), so the string and the  *)
(* pair determine each other, and for two-digit sequences the string order *)
(* used by list.sort() is the lexicographic order of the pairs.            *)
(*                                                                         *)
(* A page text is a sequence of tokens separated by blanks; a token is a   *)
(* sequence of digit groups joined by "-"; a digit group [w, v] is a run   *)
(* of w digits whose value is v ("07" is [w |-> 2, v |-> 7]).              *)
(***************************************************************************)
EXTENDS Integers, Sequences, FiniteSets, TLC

VARIABLES
    mode,        \* which entry point this behaviour exercises
    pc,          \* position of the single thread of control
    origin,      \* IDs the origin server answers with a PDF
    content,     \* the document stored under / served for each ID
    store,       \* IDs whose file exists in the output directory
    starting_map,
    community_prefix,
    queue, processed, failed,                 \* crawl_plat_maps locals
    crawl_result,                             \* value crawl_plat_maps returned
    run, processed1, failed1,                 \* second-run bookkeeping
    max_attempts, i, discovered, consecutive_failures, \* systematic_discovery
    last_attempt,
    todo, newly_discovered,                   \* hybrid phase 3
    additional_processed, additional_failed,  \* hybrid phase 4
    totals,                                   \* value returned by the hybrid
    calls,       \* IDs download_pdf has been called for in this run
    requested,   \* IDs a network request was issued for in this run
    fetch_failed,\* IDs for which download_pdf returned False in this run
    refetched,   \* IDs fetched again after download_pdf had failed for them
    pending,     \* a fetch attempt was made and no delay has followed yet
    undelayed,   \* IDs fetched while an earlier attempt was still pending
    bad_enqueue, \* IDs appended to the queue while processed/failed/queued
    bad_success, \* IDs for which download_pdf returned True without a file
    store_hit_net, \* stored IDs download_pdf requested or reported as failed
    ext_map, ext_doc, ext_result, ext_done,   \* extractor harness
    ever_queued, \* IDs that have been in the queue during this traversal
    call_count,  \* number of download_pdf calls made
    fail_count,  \* number of download_pdf calls that returned False
    mkdir_ok,    \* whether the output directory can be created or accessed
    output_dir_ready,                         \* setup_output_directory returned
    remaining,   \* starting maps crawl_all_communities has still to visit
    total_processed, total_failed             \* crawl_all_communities locals

vars == <<mode, pc, origin, content, store, starting_map, community_prefix,
          queue, processed, failed, crawl_result, run, processed1, failed1,
          max_attempts, i, discovered, consecutive_failures, last_attempt,
          todo, newly_discovered, additional_processed, additional_failed,
          totals, calls, requested, fetch_failed, refetched, pending,
          undelayed, bad_enqueue, ever_queued, bad_success, store_hit_net,
          call_count, fail_count, ext_map, ext_doc, ext_result, ext_done,
          mkdir_ok, output_dir_ready, remaining, total_processed,
          total_failed>>

(***************************************************************************)
(* Program constants                                                       *)
(***************************************************************************)
max_consecutive_failures == 10

DEFAULT_MAX_ATTEMPTS == 100

(***************************************************************************)
(* Bounds of the model                                                     *)
(***************************************************************************)
MaxSeq == 3          \* the origin and the initial store hold sequences 1..MaxSeq
MaxProbe == 14       \* largest max_attempts tried by the prober harness
MaxPages == 2        \* pages per document in the extractor harness

(***************************************************************************)
(* Generic helpers                                                         *)
(***************************************************************************)
Range(s) == {s[k] : k \in 1..Len(s)}

IdLess(a, b) == a[1] < b[1] \/ (a[1] = b[1] /\ a[2] < b[2])

\* The element of S that has k-1 smaller ones.
NthId(S, k) == CHOOSE a \in S : Cardinality({b \in S : IdLess(b, a)}) = k - 1

\* sorted(S): the k-th entry is the k-th smallest.
SortIds(S) == [k \in 1..Cardinality(S) |-> NthId(S, k)]

(***************************************************************************)
(* Texts.  G(w, v) is a run of w digits of value v.                        *)
(***************************************************************************)
G(w, v) == [w |-> w, v |-> v]

\* re.findall(r'\b(0\d{2}-\d{2})\b', ...) inside one token: a three-digit
\* group with a leading 0 joined by "-" to a two-digit group.  Both ends are
\* word boundaries because groups are delimited by "-", a blank or the text
\* end.  A match cannot overlap the next one (the widths differ).
RECURSIVE FullFormatInToken(_)
FullFormatInToken(tok) ==
    IF Len(tok) < 2 THEN <<>>
    ELSE IF tok[1].w = 3 /\ tok[1].v < 100 /\ tok[2].w = 2
         THEN <<(<<tok[1].v, tok[2].v>>)>> \o FullFormatInToken(Tail(Tail(tok)))
         ELSE FullFormatInToken(Tail(tok))

\* re.findall(r'\b(\d{2})\b', ...) inside one token: every group of exactly
\* two digits; int(match) is its value.
RECURSIVE TwoDigitInToken(_)
TwoDigitInToken(tok) ==
    IF tok = <<>> THEN <<>>
    ELSE (IF Head(tok).w = 2 THEN <<Head(tok).v>> ELSE <<>>)
         \o TwoDigitInToken(Tail(tok))

RECURSIVE full_format_matches(_)
full_format_matches(full_text) ==
    IF full_text = <<>> THEN <<>>
    ELSE FullFormatInToken(Head(full_text)) \o full_format_matches(Tail(full_text))

RECURSIVE two_digit_matches(_)
two_digit_matches(full_text) ==
    IF full_text = <<>> THEN <<>>
    ELSE TwoDigitInToken(Head(full_text)) \o two_digit_matches(Tail(full_text))

\* line 171: the range kept as likely map references.
InMapRange(num) == 1 <= num /\ num <= 50

(***************************************************************************)
(* found_numbers, lines 167-176, is a Python set of ints: an open-addressed *)
(* hash table, and `for num in found_numbers` walks its slots in order.    *)
(* hash(num) = num; the table has 8 slots at first and is rebuilt, in slot *)
(* order, with the first power of two above 4 * used once it is 3/5 full.  *)
(* A table is a function from 0..mask to a key or EmptySlot.               *)
(***************************************************************************)
EmptySlot == -1
LINEAR_PROBES == 9
PERTURB_SHIFT == 5
PySet_MINSIZE == 8

NewTable(size) == [slot \in 0..(size - 1) |-> EmptySlot]

Mask(table) == Cardinality(DOMAIN table) - 1

Used(table) == Cardinality({slot \in DOMAIN table : table[slot] # EmptySlot})

\* The probe sequence of set_add_entry and set_insert_clean: the slot start
\* and, if they fit below the mask, the LINEAR_PROBES slots after it; then
\* the jump to (start * 5 + 1 + perturb) & mask with perturb shifted right.
\* The result is the first slot that is free or already holds the key.
RECURSIVE FindSlot(_, _, _, _)
FindSlot(table, start, perturb, key) ==
    LET mask == Mask(table)
        last == IF start + LINEAR_PROBES <= mask
                THEN start + LINEAR_PROBES ELSE start
        hits == {slot \in start..last :
                    table[slot] = EmptySlot \/ table[slot] = key}
        shifted == perturb \div (2 ^ PERTURB_SHIFT)
    IN IF hits # {}
       THEN CHOOSE slot \in hits : \A other \in hits : slot <= other
       ELSE FindSlot(table, (start * 5 + 1 + shifted) % (mask + 1),
                     shifted, key)

Place(table, key) ==
    [table EXCEPT ![FindSlot(table, key % (Mask(table) + 1), key, key)] = key]

RECURSIVE GrownSize(_, _)
GrownSize(newsize, minused) ==
    IF newsize > minused THEN newsize ELSE GrownSize(newsize * 2, minused)

\* set_table_resize: the entries of the old table, slot 0 first, are put
\* into the new one.
RECURSIVE Reinsert(_, _, _)
Reinsert(old, slot, new) ==
    IF slot > Mask(old) THEN new
    ELSE Reinsert(old, slot + 1,
                  IF old[slot] = EmptySlot THEN new ELSE Place(new, old[slot]))

SetAdd(table, key) ==
    IF \E slot \in DOMAIN table : table[slot] = key THEN table
    ELSE LET added == Place(table, key)
         IN IF Used(added) * 5 < Mask(added) * 3 THEN added
            ELSE Reinsert(added, 0,
                          NewTable(GrownSize(PySet_MINSIZE, Used(added) * 4)))

RECURSIVE AddAll(_, _)
AddAll(table, matches) ==
    IF matches = <<>> THEN table
    ELSE AddAll(IF InMapRange(Head(matches))
                THEN SetAdd(table, Head(matches)) ELSE table,
                Tail(matches))

\* lines 167-173: the set after the loop over two_digit_matches.
found_numbers(full_text) ==
    AddAll(NewTable(PySet_MINSIZE), two_digit_matches(full_text))

\* line 176, `for num in found_numbers`: the keys in slot order.
RECURSIVE KeysFrom(_, _)
KeysFrom(table, slot) ==
    IF slot > Mask(table) THEN <<>>
    ELSE (IF table[slot] = EmptySlot THEN <<>> ELSE <<table[slot]>>)
         \o KeysFrom(table, slot + 1)

SetIterOrder(table) == KeysFrom(table, 0)

\* line 177: f"001-{num:02d}", the community is the literal 001.
FormatShort(current_map, num) == <<1, num>>

FormatAll(current_map, nums) ==
    [k \in 1..Len(nums) |-> FormatShort(current_map, nums[k])]

\* lines 141-145: full_text = combined_text + " " + regular_text
FullText(page) == page.spans \o page.regular

\* lines 158-178: what one readable page appends to references.
PageReferences(current_map, page) ==
    LET full_text == FullText(page)
    IN full_format_matches(full_text)
       \o FormatAll(current_map, SetIterOrder(found_numbers(full_text)))

\* lines 117-181: the page loop.  A page that cannot be loaded raises before
\* anything is appended for it; the references of earlier pages stay.
RECURSIVE ScanPages(_, _, _)
ScanPages(current_map, pages, references) ==
    IF pages = <<>> THEN [references |-> references, raised |-> FALSE]
    ELSE IF ~Head(pages).ok THEN [references |-> references, raised |-> TRUE]
    ELSE ScanPages(current_map, Tail(pages),
                   references \o PageReferences(current_map, Head(pages)))

\* lines 187-189: list(set(references)), drop the current map, sort.
ExcludeCurrent(references, current_map) ==
    SortIds(Range(references) \ {current_map})

\* lines 202-205
FallbackOffsets == {-1, 1, 10, -10}

fallback_refs(current_num) ==
    {<<1, current_num + offset>> :
        offset \in {o \in FallbackOffsets :
                        1 <= current_num + o /\ current_num + o <= 99}}

\* line 197: current_map.startswith("001-")
FallbackApplies(current_map) == current_map[1] = 1

\* lines 194-212
WithFallback(references, current_map) ==
    IF Len(references) < 3 /\ FallbackApplies(current_map)
    THEN SortIds(Range(references) \cup fallback_refs(current_map[2]))
    ELSE references

\* lines 112-217.  fitz.open raising leaves references = []; a page raising
\* skips lines 183-212 and returns the list as accumulated so far.
extract_map_references(current_map, doc) ==
    IF ~doc.open_ok THEN <<>>
    ELSE LET scan == ScanPages(current_map, doc.pages, <<>>)
         IN IF scan.raised THEN scan.references
            ELSE WithFallback(ExcludeCurrent(scan.references, current_map),
                              current_map)

(***************************************************************************)
(* Inputs: map IDs and documents                                           *)
(***************************************************************************)
Communities == {1, 2}                \* "001" and "002" of COMMUNITY_PREFIXES

Universe(c) == {<<c, n>> : n \in 1..MaxSeq}

\* lines 37-44: "001-01", "002-01", "003-01", "004-01", "006-01", "007-01"
STARTING_MAPS ==
    <<(<<1, 1>>), (<<2, 1>>), (<<3, 1>>), (<<4, 1>>), (<<6, 1>>), (<<7, 1>>)>>

MainCommunities == {STARTING_MAPS[k][1] : k \in 1..Len(STARTING_MAPS)}

Word(v) == <<G(2, v)>>                              \* "02"
FullRef(c, n) == <<G(3, c), G(2, n)>>               \* "003-04"

TextNone == <<>>
TextScenario == <<(<<G(3, 2)>>), FullRef(3, 4)>>    \* "002 003-04"
TextNear == <<Word(2), Word(3), FullRef(2, 2), FullRef(2, 3)>>
TextSelf == <<FullRef(1, 1), Word(2), FullRef(2, 2)>>
TextLots == <<Word(9), Word(2), Word(51), (<<G(3, 123)>>), (<<G(1, 7)>>)>>
TextOwn == <<Word(7), FullRef(2, 7)>>
TextClash == <<Word(9), Word(1), Word(17)>>          \* one hash slot of 8

GoodPage(text) == [ok |-> TRUE, spans |-> text, regular |-> text]
BadPage == [ok |-> FALSE, spans |-> <<>>, regular |-> <<>>]

DocBlank == [open_ok |-> TRUE, pages |-> <<>>]
DocUnreadable == [open_ok |-> FALSE, pages |-> <<>>]
DocNear == [open_ok |-> TRUE, pages |-> <<GoodPage(TextNear)>>]
DocTorn == [open_ok |-> TRUE, pages |-> <<GoodPage(TextSelf), BadPage>>]
DocScenario == [open_ok |-> TRUE, pages |-> <<GoodPage(TextScenario)>>]

DocPool == {DocBlank, DocUnreadable, DocNear, DocTorn}

\* lines 285-286 and 101-217: what the extractor returns for each map of a
\* community and each document the origin may serve for it.  The extractor
\* reads nothing but its two arguments, so the crawl loop looks its result up.
References ==
    [map_id \in UNION {Universe(c) : c \in Communities \cup MainCommunities},
     doc \in DocPool |-> extract_map_references(map_id, doc)]

(***************************************************************************)
(* download_pdf, lines 77-98.  success: the value returned; store: the     *)
(* files afterwards; net: whether requests.get was called.                 *)
(***************************************************************************)
\* The mutants: one forgets to write the file, one forgets the exists() test,
\* one creates the file before it has the response, one empties the
\* directory before it writes.
download_pdf_replace(map_id, files, org) ==
    IF map_id \in files
    THEN [success |-> TRUE, store |-> files, net |-> FALSE]
    ELSE IF map_id \in org
         THEN [success |-> TRUE, store |-> {map_id}, net |-> TRUE]
         ELSE [success |-> FALSE, store |-> files, net |-> TRUE]

download_pdf_touch(map_id, files, org) ==
    IF map_id \in files
    THEN [success |-> TRUE, store |-> files, net |-> FALSE]
    ELSE [success |-> map_id \in org, store |-> files \cup {map_id},
          net |-> TRUE]

download_pdf_no_write(map_id, files, org) ==
    IF map_id \in files
    THEN [success |-> TRUE, store |-> files, net |-> FALSE]
    ELSE IF map_id \in org
         THEN [success |-> TRUE, store |-> files, net |-> TRUE]
         ELSE [success |-> FALSE, store |-> files, net |-> TRUE]

download_pdf_no_skip(map_id, files, org) ==
    IF map_id \in org
    THEN [success |-> TRUE, store |-> files \cup {map_id}, net |-> TRUE]
    ELSE [success |-> FALSE, store |-> files, net |-> TRUE]

download_pdf(map_id, files, org) ==
    IF map_id \in files
    THEN [success |-> TRUE, store |-> files, net |-> FALSE]
    ELSE IF map_id \in org
         THEN [success |-> TRUE, store |-> files \cup {map_id}, net |-> TRUE]
         ELSE [success |-> FALSE, store |-> files, net |-> TRUE]

\* Bookkeeping of one download_pdf call whose outcome is r.
FetchEffects(map_id, r) ==
    /\ store' = r.store
    /\ calls' = calls \cup {map_id}
    /\ requested' = IF r.net THEN requested \cup {map_id} ELSE requested
    /\ fetch_failed' = IF r.success THEN fetch_failed
                       ELSE fetch_failed \cup {map_id}
    /\ refetched' = IF map_id \in fetch_failed THEN refetched \cup {map_id}
                    ELSE refetched
    /\ undelayed' = IF pending THEN undelayed \cup {map_id} ELSE undelayed
    /\ bad_success' = IF r.success /\ map_id \notin r.store
                      THEN bad_success \cup {map_id} ELSE bad_success
    /\ store_hit_net' = IF map_id \in store /\ (r.net \/ ~r.success)
                        THEN store_hit_net \cup {map_id} ELSE store_hit_net
    /\ call_count' = call_count + 1
    /\ fail_count' = IF r.success THEN fail_count ELSE fail_count + 1

NoFetch == UNCHANGED <<store, calls, requested, fetch_failed, refetched,
                       undelayed, bad_success, store_hit_net, call_count,
                       fail_count>>

(***************************************************************************)
(* crawl_plat_maps, lines 257-306                                          *)
(***************************************************************************)
\* line 295: ref.startswith(community_prefix + "-").  The mutant has lost
\* the test.
SameCommunityAny(ref, prefix) == TRUE

SameCommunity(ref, prefix) == ref[1] = prefix

\* line 295, the mutant forgets the scan of the live queue.
MayEnqueueNoQueueCheck(ref, q, prefix, proc, fail) ==
    /\ SameCommunity(ref, prefix)
    /\ ref \notin proc
    /\ ref \notin fail

MayEnqueueNoProcessedCheck(ref, q, prefix, proc, fail) ==
    /\ SameCommunity(ref, prefix)
    /\ ref \notin fail
    /\ ref \notin Range(q)

MayEnqueue(ref, q, prefix, proc, fail) ==
    /\ SameCommunity(ref, prefix)
    /\ ref \notin proc
    /\ ref \notin fail
    /\ ref \notin Range(q)

\* lines 294-297: the queue after the loop over references.
RECURSIVE Enqueue(_, _, _, _, _)
Enqueue(q, references, prefix, proc, fail) ==
    IF references = <<>> THEN q
    ELSE Enqueue(IF MayEnqueue(Head(references), q, prefix, proc, fail)
                 THEN Append(q, Head(references)) ELSE q,
                 Tail(references), prefix, proc, fail)

\* The IDs that loop appended although they were, at that moment, in
\* processed, in failed or in the queue.
RECURSIVE BadAppends(_, _, _, _, _)
BadAppends(q, references, prefix, proc, fail) ==
    IF references = <<>> THEN {}
    ELSE LET ref == Head(references)
             add == MayEnqueue(ref, q, prefix, proc, fail)
         IN (IF add /\ (ref \in proc \/ ref \in fail \/ ref \in Range(q))
             THEN {ref} ELSE {})
            \cup BadAppends(IF add THEN Append(q, ref) ELSE q,
                            Tail(references), prefix, proc, fail)

\* One iteration of the while loop, lines 264-299.
CrawlStep ==
    /\ pc = "crawl"
    /\ queue # <<>>
    /\ LET current_map == Head(queue)
           rest == Tail(queue)
       IN IF current_map \in processed \/ current_map \in failed
          THEN /\ queue' = rest
               /\ NoFetch
               /\ UNCHANGED <<processed, failed, pending, bad_enqueue,
                              ever_queued>>
          ELSE LET r == download_pdf(current_map, store, origin)
               IN /\ FetchEffects(current_map, r)
                  /\ IF ~r.success
                     THEN /\ failed' = failed \cup {current_map}
                          /\ queue' = rest
                          /\ pending' = TRUE
                          /\ UNCHANGED <<processed, bad_enqueue, ever_queued>>
                     ELSE LET proc == processed \cup {current_map}
                              references ==
                                  References[current_map, content[current_map]]
                          IN /\ processed' = proc
                             /\ pending' = FALSE     \* time.sleep, line 287
                             /\ queue' = Enqueue(rest, references,
                                                 community_prefix, proc, failed)
                             /\ bad_enqueue' = bad_enqueue \cup
                                    BadAppends(rest, references,
                                               community_prefix, proc, failed)
                             /\ ever_queued' = ever_queued \cup
                                    Range(Enqueue(rest, references,
                                                  community_prefix, proc,
                                                  failed))
                             /\ UNCHANGED failed
    /\ UNCHANGED <<mode, pc, origin, content, starting_map, community_prefix,
                   crawl_result, run, processed1, failed1, max_attempts, i,
                   discovered, consecutive_failures, last_attempt, todo,
                   newly_discovered, additional_processed, additional_failed,
                   totals, ext_map, ext_doc, ext_result, ext_done, mkdir_ok,
                   output_dir_ready, remaining, total_processed,
                   total_failed>>

\* line 306: return len(processed), len(failed).  The mutant reports the
\* length of the (empty) queue in place of the failures.
CrawlCountsOfQueue(proc, fail, q) == <<Cardinality(proc), Len(q)>>

CrawlCounts(proc, fail, q) == <<Cardinality(proc), Cardinality(fail)>>

\* lines 301-306: the frontier is empty, the counts are returned.
CrawlReturn ==
    /\ pc = "crawl"
    /\ queue = <<>>
    /\ crawl_result' = CrawlCounts(processed, failed, queue)
    /\ pc' = "crawl_done"
    /\ UNCHANGED <<mode, origin, content, store, starting_map,
                   community_prefix, queue, processed, failed, run,
                   processed1, failed1, max_attempts, i, discovered,
                   consecutive_failures, last_attempt, todo, newly_discovered,
                   additional_processed, additional_failed, totals, calls,
                   requested, fetch_failed, refetched, pending, undelayed,
                   bad_enqueue, ever_queued, bad_success, store_hit_net,
                   call_count, fail_count, ext_map, ext_doc, ext_result,
                   ext_done, mkdir_ok, output_dir_ready, remaining,
                   total_processed, total_failed>>

\* A second call of crawl_plat_maps with the same starting map, against the
\* store the first call left (lines 257-261 run again).  Nothing sleeps
\* between the two calls: a fetch left without its delay stays so.
CrawlAgain ==
    /\ mode = "crawl"
    /\ pc = "crawl_done"
    /\ run = 1
    /\ run' = 2
    /\ processed1' = processed
    /\ failed1' = failed
    /\ queue' = <<starting_map>>
    /\ ever_queued' = {starting_map}
    /\ processed' = {}
    /\ failed' = {}
    /\ calls' = {}
    /\ requested' = {}
    /\ fetch_failed' = {}
    /\ refetched' = {}
    /\ pc' = "crawl"
    /\ UNCHANGED <<pending, mode, origin, content, store, starting_map,
                   community_prefix, crawl_result, max_attempts, i,
                   discovered, consecutive_failures, last_attempt, todo,
                   newly_discovered, additional_processed, additional_failed,
                   totals, undelayed, bad_enqueue, bad_success, store_hit_net,
                   call_count, fail_count, ext_map, ext_doc, ext_result,
                   ext_done, mkdir_ok, output_dir_ready, remaining,
                   total_processed, total_failed>>

(***************************************************************************)
(* systematic_discovery, lines 321-357                                     *)
(***************************************************************************)
\* line 349, the mutant stops one failure late.
CutoffReachedLate(failures) == failures > max_consecutive_failures

CutoffReached(failures) == failures >= max_consecutive_failures

\* line 334: an existing file resets the failure streak.  The mutant keeps it.
AfterExistingKeep(failures) == failures

AfterExisting(failures) == 0

\* line 327: range(1, max_attempts + 1) is exhausted after i = max_attempts.
LastIteration(n, limit) == n = limit

AfterIteration(n, limit) == IF LastIteration(n, limit) THEN "probe_done" ELSE "probe"

\* One iteration of the for loop, lines 327-354.
ProbeStep ==
    /\ pc = "probe"
    /\ LET map_id == <<community_prefix, i>>
       IN IF map_id \in store
          THEN /\ discovered' = discovered \cup {map_id}
               /\ consecutive_failures' = AfterExisting(consecutive_failures)
               /\ i' = i + 1
               /\ pc' = AfterIteration(i, max_attempts)
               /\ NoFetch
               /\ UNCHANGED <<pending, last_attempt>>
          ELSE LET r == download_pdf(map_id, store, origin)
               IN /\ FetchEffects(map_id, r)
                  /\ last_attempt' = i
                  /\ IF r.success
                     THEN /\ discovered' = discovered \cup {map_id}
                          /\ consecutive_failures' = 0
                          /\ pending' = FALSE      \* time.sleep, line 354
                          /\ i' = i + 1
                          /\ pc' = AfterIteration(i, max_attempts)
                     ELSE /\ consecutive_failures' = consecutive_failures + 1
                          /\ UNCHANGED discovered
                          /\ IF CutoffReached(consecutive_failures + 1)
                             THEN /\ pending' = TRUE        \* break, line 351
                                  /\ i' = i
                                  /\ pc' = "probe_done"
                             ELSE /\ pending' = FALSE  \* time.sleep, line 354
                                  /\ i' = i + 1
                                  /\ pc' = AfterIteration(i, max_attempts)
    /\ UNCHANGED <<mode, origin, content, starting_map, community_prefix,
                   queue, processed, failed, crawl_result, run, processed1,
                   failed1, max_attempts, todo, newly_discovered,
                   additional_processed, additional_failed, totals,
                   bad_enqueue, ever_queued, ext_map, ext_doc, ext_result,
                   ext_done, mkdir_ok, output_dir_ready, remaining,
                   total_processed, total_failed>>

(***************************************************************************)
(* hybrid_crawl_community, lines 371-416                                   *)
(***************************************************************************)
\* hybrid_crawl_community runs on its own or under crawl_all_communities.
HybridModes == {"hybrid", "main"}

\* lines 376-380 and 321-325: phase 1 has returned, phase 2 begins.
StartProbe ==
    /\ mode \in HybridModes
    /\ pc = "crawl_done"
    /\ discovered' = {}
    /\ consecutive_failures' = 0
    /\ i' = 1
    /\ pc' = "probe"
    /\ UNCHANGED <<mode, origin, content, store, starting_map,
                   community_prefix, queue, processed, failed, crawl_result,
                   run, processed1, failed1, max_attempts, last_attempt, todo,
                   newly_discovered, additional_processed, additional_failed,
                   totals, calls, requested, fetch_failed, refetched, pending,
                   undelayed, bad_enqueue, ever_queued, bad_success,
                   store_hit_net, call_count, fail_count, ext_map, ext_doc,
                   ext_result, ext_done, mkdir_ok, output_dir_ready,
                   remaining, total_processed, total_failed>>

\* lines 380-384: phase 2 has returned, phase 3 begins.
StartPhase3 ==
    /\ mode \in HybridModes
    /\ pc = "probe_done"
    /\ todo' = discovered
    /\ newly_discovered' = <<>>
    /\ pc' = "phase3"
    /\ UNCHANGED <<mode, origin, content, store, starting_map,
                   community_prefix, queue, processed, failed, crawl_result,
                   run, processed1, failed1, max_attempts, i, discovered,
                   consecutive_failures, last_attempt, additional_processed,
                   additional_failed, totals, calls, requested, fetch_failed,
                   refetched, pending, undelayed, bad_enqueue, ever_queued,
                   bad_success, store_hit_net, call_count, fail_count,
                   ext_map, ext_doc, ext_result, ext_done, mkdir_ok,
                   output_dir_ready, remaining, total_processed,
                   total_failed>>

\* lines 389-391: the references of one discovered map that are kept.
RECURSIVE Missing(_, _, _)
Missing(references, prefix, files) ==
    IF references = <<>> THEN <<>>
    ELSE (IF SameCommunity(Head(references), prefix)
             /\ Head(references) \notin files
          THEN <<Head(references)>> ELSE <<>>)
         \o Missing(Tail(references), prefix, files)

\* One iteration of the loop of lines 385-391.  discovered_systematic is a
\* set of strings: its iteration order is any order.
Phase3Step ==
    /\ pc = "phase3"
    /\ \E map_id \in todo :
          /\ todo' = todo \ {map_id}
          /\ newly_discovered' =
                IF map_id \in store
                THEN newly_discovered
                     \o Missing(extract_map_references(map_id, content[map_id]),
                                community_prefix, store)
                ELSE newly_discovered
    /\ UNCHANGED <<mode, pc, origin, content, store, starting_map,
                   community_prefix, queue, processed, failed, crawl_result,
                   run, processed1, failed1, max_attempts, i, discovered,
                   consecutive_failures, last_attempt, additional_processed,
                   additional_failed, totals, calls, requested, fetch_failed,
                   refetched, pending, undelayed, bad_enqueue, ever_queued,
                   bad_success, store_hit_net, call_count, fail_count,
                   ext_map, ext_doc, ext_result, ext_done, mkdir_ok,
                   output_dir_ready, remaining, total_processed,
                   total_failed>>

\* lines 393-396: phase 3 is over, phase 4 begins.
StartPhase4 ==
    /\ pc = "phase3"
    /\ todo = {}
    /\ additional_processed' = 0
    /\ additional_failed' = 0
    /\ pc' = "phase4"
    /\ UNCHANGED <<mode, origin, content, store, starting_map,
                   community_prefix, queue, processed, failed, crawl_result,
                   run, processed1, failed1, max_attempts, i, discovered,
                   consecutive_failures, last_attempt, todo, newly_discovered,
                   totals, calls, requested, fetch_failed, refetched, pending,
                   undelayed, bad_enqueue, ever_queued, bad_success,
                   store_hit_net, call_count, fail_count, ext_map, ext_doc,
                   ext_result, ext_done, mkdir_ok, output_dir_ready,
                   remaining, total_processed, total_failed>>

\* One iteration of the loop of lines 398-405.
Phase4Step ==
    /\ pc = "phase4"
    /\ newly_discovered # <<>>
    /\ LET ref == Head(newly_discovered)
           r == download_pdf(ref, store, origin)
       IN /\ FetchEffects(ref, r)
          /\ additional_processed' =
                IF r.success THEN additional_processed + 1
                ELSE additional_processed
          /\ additional_failed' =
                IF r.success THEN additional_failed
                ELSE additional_failed + 1
          /\ pending' = FALSE                      \* time.sleep, line 405
          /\ newly_discovered' = Tail(newly_discovered)
    /\ UNCHANGED <<mode, pc, origin, content, starting_map, community_prefix,
                   queue, processed, failed, crawl_result, run, processed1,
                   failed1, max_attempts, i, discovered, consecutive_failures,
                   last_attempt, todo, totals, bad_enqueue, ever_queued,
                   ext_map, ext_doc, ext_result, ext_done, mkdir_ok,
                   output_dir_ready, remaining, total_processed,
                   total_failed>>

\* lines 407-416
HybridReturn ==
    /\ pc = "phase4"
    /\ newly_discovered = <<>>
    /\ totals' = <<crawl_result[1] + Cardinality(discovered)
                       + additional_processed,
                   crawl_result[2] + additional_failed>>
    /\ pc' = "done"
    /\ UNCHANGED <<mode, origin, content, store, starting_map,
                   community_prefix, queue, processed, failed, crawl_result,
                   run, processed1, failed1, max_attempts, i, discovered,
                   consecutive_failures, last_attempt, todo, newly_discovered,
                   additional_processed, additional_failed, calls, requested,
                   fetch_failed, refetched, pending, undelayed, bad_enqueue,
                   ever_queued, bad_success, store_hit_net, call_count,
                   fail_count, ext_map, ext_doc, ext_result, ext_done,
                   mkdir_ok, output_dir_ready, remaining, total_processed,
                   total_failed>>

(***************************************************************************)
(* Starting conditions                                                     *)
(***************************************************************************)
\* The starting conditions of a run on community c: what the origin serves,
\* what an earlier run left in the store, and the documents themselves.
World(c) ==
    /\ community_prefix = c
    /\ starting_map = <<c, 1>>
    /\ origin \in SUBSET Universe(c)
    /\ store \in SUBSET Universe(c)
    /\ content \in [Universe(c) -> DocPool]

NoHistory ==
    /\ calls = {}
    /\ requested = {}
    /\ fetch_failed = {}
    /\ refetched = {}
    /\ pending = FALSE
    /\ undelayed = {}
    /\ bad_enqueue = {}
    /\ bad_success = {}
    /\ store_hit_net = {}
    /\ call_count = 0
    /\ fail_count = 0

\* The output directory is handed in as output_dir and exists.
NoMain ==
    /\ mkdir_ok = TRUE
    /\ output_dir_ready = TRUE
    /\ remaining = <<>>
    /\ total_processed = 0
    /\ total_failed = 0

NoCrawl ==
    /\ queue = <<>>
    /\ ever_queued = {}
    /\ processed = {}
    /\ failed = {}
    /\ crawl_result = <<0, 0>>
    /\ run = 1
    /\ processed1 = {}
    /\ failed1 = {}

NoProbe ==
    /\ i = 1
    /\ discovered = {}
    /\ consecutive_failures = 0
    /\ last_attempt = 0

NoHybrid ==
    /\ todo = {}
    /\ newly_discovered = <<>>
    /\ additional_processed = 0
    /\ additional_failed = 0
    /\ totals = <<0, 0>>

NoExtract ==
    /\ ext_map = <<1, 1>>
    /\ ext_doc = DocBlank
    /\ ext_result = <<>>
    /\ ext_done = FALSE

(***************************************************************************)
(* hybrid_crawl_community(starting_map, output_dir)                        *)
(***************************************************************************)
Init ==
    /\ mode = "hybrid"
    /\ pc = "crawl"
    /\ \E c \in Communities : World(c)
    /\ queue = <<starting_map>>                    \* lines 257-259
    /\ ever_queued = {starting_map}
    /\ processed = {}
    /\ failed = {}
    /\ crawl_result = <<0, 0>>
    /\ run = 1
    /\ processed1 = {}
    /\ failed1 = {}
    /\ max_attempts = DEFAULT_MAX_ATTEMPTS
    /\ NoProbe /\ NoHybrid /\ NoHistory /\ NoExtract /\ NoMain

Next ==
    \/ CrawlStep
    \/ CrawlReturn
    \/ StartProbe
    \/ ProbeStep
    \/ StartPhase3
    \/ Phase3Step
    \/ StartPhase4
    \/ Phase4Step
    \/ HybridReturn

Spec == Init /\ [][Next]_vars

(***************************************************************************)
(* crawl_plat_maps(starting_map, output_dir), called twice in a row        *)
(***************************************************************************)
InitCrawl ==
    /\ mode = "crawl"
    /\ pc = "crawl"
    /\ \E c \in Communities : World(c)
    /\ queue = <<starting_map>>
    /\ ever_queued = {starting_map}
    /\ processed = {}
    /\ failed = {}
    /\ crawl_result = <<0, 0>>
    /\ run = 1
    /\ processed1 = {}
    /\ failed1 = {}
    /\ max_attempts = DEFAULT_MAX_ATTEMPTS
    /\ NoProbe /\ NoHybrid /\ NoHistory /\ NoExtract /\ NoMain

NextCrawl ==
    \/ CrawlStep
    \/ CrawlReturn
    \/ CrawlAgain

SpecCrawl == InitCrawl /\ [][NextCrawl]_vars

(***************************************************************************)
(* systematic_discovery(community_prefix, output_dir, max_attempts)        *)
(***************************************************************************)
InitProbe ==
    /\ mode = "probe"
    /\ pc = "probe"
    /\ \E c \in Communities : World(c)
    /\ content = [id \in Universe(community_prefix) |-> DocBlank]
    /\ max_attempts \in 1..MaxProbe
    /\ NoCrawl /\ NoProbe /\ NoHybrid /\ NoHistory /\ NoExtract /\ NoMain

NextProbe == ProbeStep

SpecProbe == InitProbe /\ [][NextProbe]_vars

(***************************************************************************)
(* extract_map_references(pdf_path) on its own                             *)
(***************************************************************************)
ExtractMaps == {<<1, 1>>, <<1, 7>>, <<1, 95>>, <<2, 1>>, <<2, 7>>}

PagePool == {BadPage} \cup
            {GoodPage(t) : t \in {TextNone, TextScenario, TextNear, TextSelf,
                                  TextLots, TextOwn, TextClash}}

RECURSIVE SeqsUpTo(_, _)
SeqsUpTo(S, n) ==
    IF n = 0 THEN {<<>>}
    ELSE LET shorter == SeqsUpTo(S, n - 1)
         IN shorter \cup {Append(s, x) : s \in shorter, x \in S}

ExtractDocs == {[open_ok |-> o, pages |-> ps] :
                    o \in BOOLEAN, ps \in SeqsUpTo(PagePool, MaxPages)}

InitExtract ==
    /\ mode = "extract"
    /\ pc = "extract"
    /\ origin = {}
    /\ store = {}
    /\ community_prefix = 1
    /\ starting_map = <<1, 1>>
    /\ content = [id \in Universe(1) |-> DocBlank]
    /\ max_attempts = DEFAULT_MAX_ATTEMPTS
    /\ ext_map \in ExtractMaps
    /\ ext_doc \in ExtractDocs
    /\ ext_result = <<>>
    /\ ext_done = FALSE
    /\ NoCrawl /\ NoProbe /\ NoHybrid /\ NoHistory /\ NoMain

\* references = extract_map_references(output_dir / f"{ext_map}.pdf")
Extract ==
    /\ pc = "extract"
    /\ ext_result' = extract_map_references(ext_map, ext_doc)
    /\ ext_done' = TRUE
    /\ pc' = "extracted"
    /\ UNCHANGED <<mode, origin, content, store, starting_map,
                   community_prefix, queue, processed, failed, crawl_result,
                   run, processed1, failed1, max_attempts, i, discovered,
                   consecutive_failures, last_attempt, todo, newly_discovered,
                   additional_processed, additional_failed, totals, calls,
                   requested, fetch_failed, refetched, pending, undelayed,
                   bad_enqueue, ever_queued, bad_success, store_hit_net,
                   call_count, fail_count, ext_map, ext_doc, mkdir_ok,
                   output_dir_ready, remaining, total_processed,
                   total_failed>>

NextExtract == Extract

SpecExtract == InitExtract /\ [][NextExtract]_vars

(***************************************************************************)
(* main and crawl_all_communities, lines 220-243 and 479-509               *)
(***************************************************************************)
\* lines 60-63 and 484: path.mkdir raising leaves main by the exception,
\* before crawl_all_communities is called.  The mutant swallows the error.
SetupOutcomeIgnored(ok) == "communities"

SetupOutcome(ok) == IF ok THEN "communities" ELSE "aborted"

\* line 484, and lines 227-230 when setup_output_directory returned.
Setup ==
    /\ pc = "main"
    /\ pc' = SetupOutcome(mkdir_ok)
    /\ output_dir_ready' = mkdir_ok
    /\ remaining' = IF SetupOutcome(mkdir_ok) = "communities"
                    THEN STARTING_MAPS ELSE remaining
    /\ total_processed' = 0
    /\ total_failed' = 0
    /\ UNCHANGED <<mode, origin, content, store, starting_map,
                   community_prefix, queue, processed, failed, crawl_result,
                   run, processed1, failed1, max_attempts, i, discovered,
                   consecutive_failures, last_attempt, todo, newly_discovered,
                   additional_processed, additional_failed, totals, calls,
                   requested, fetch_failed, refetched, pending, undelayed,
                   bad_enqueue, ever_queued, bad_success, store_hit_net,
                   call_count, fail_count, ext_map, ext_doc, ext_result,
                   ext_done, mkdir_ok>>

\* lines 232-236, 371-376 and 257-261: the next starting map is handed to
\* hybrid_crawl_community, whose phase 1 sets up the traversal.
CallHybrid ==
    /\ pc = "communities"
    /\ remaining # <<>>
    /\ starting_map' = Head(remaining)
    /\ community_prefix' = Head(remaining)[1]
    /\ remaining' = Tail(remaining)
    /\ queue' = <<Head(remaining)>>
    /\ ever_queued' = {Head(remaining)}
    /\ processed' = {}
    /\ failed' = {}
    /\ pc' = "crawl"
    /\ UNCHANGED <<mode, origin, content, store, crawl_result, run,
                   processed1, failed1, max_attempts, i, discovered,
                   consecutive_failures, last_attempt, todo, newly_discovered,
                   additional_processed, additional_failed, totals, calls,
                   requested, fetch_failed, refetched, pending, undelayed,
                   bad_enqueue, bad_success, store_hit_net, call_count,
                   fail_count, ext_map, ext_doc, ext_result, ext_done,
                   mkdir_ok, output_dir_ready, total_processed, total_failed>>

\* lines 236-240: the hybrid has returned, its counts are added up.
AddTotals ==
    /\ mode = "main"
    /\ pc = "done"
    /\ total_processed' = total_processed + totals[1]
    /\ total_failed' = total_failed + totals[2]
    /\ pc' = "communities"
    /\ UNCHANGED <<mode, origin, content, store, starting_map,
                   community_prefix, queue, processed, failed, crawl_result,
                   run, processed1, failed1, max_attempts, i, discovered,
                   consecutive_failures, last_attempt, todo, newly_discovered,
                   additional_processed, additional_failed, totals, calls,
                   requested, fetch_failed, refetched, pending, undelayed,
                   bad_enqueue, ever_queued, bad_success, store_hit_net,
                   call_count, fail_count, ext_map, ext_doc, ext_result,
                   ext_done, mkdir_ok, output_dir_ready, remaining>>

\* lines 242-243 and 487-509: every starting map was visited.
MainSummary ==
    /\ pc = "communities"
    /\ remaining = <<>>
    /\ pc' = "finished"
    /\ UNCHANGED <<mode, origin, content, store, starting_map,
                   community_prefix, queue, processed, failed, crawl_result,
                   run, processed1, failed1, max_attempts, i, discovered,
                   consecutive_failures, last_attempt, todo, newly_discovered,
                   additional_processed, additional_failed, totals, calls,
                   requested, fetch_failed, refetched, pending, undelayed,
                   bad_enqueue, ever_queued, bad_success, store_hit_net,
                   call_count, fail_count, ext_map, ext_doc, ext_result,
                   ext_done, mkdir_ok, output_dir_ready, remaining,
                   total_processed, total_failed>>

MainUniverse == UNION {Universe(c) : c \in MainCommunities}

\* The origins of a whole run: community 001 serves the sequences of one
\* set, every other community those of another.
MainOrigins ==
    {{id \in MainUniverse : id[2] \in (IF id[1] = 1 THEN first ELSE others)} :
        first \in SUBSET (1..MaxSeq), others \in SUBSET (1..MaxSeq)}

MainDocs == {DocBlank, DocNear, DocTorn}

InitMain ==
    /\ mode = "main"
    /\ pc = "main"
    /\ mkdir_ok \in BOOLEAN
    /\ output_dir_ready = FALSE
    /\ remaining = <<>>
    /\ total_processed = 0
    /\ total_failed = 0
    /\ origin \in MainOrigins
    /\ store \in {{}, origin}
    /\ content \in {[id \in MainUniverse |-> d] : d \in MainDocs}
    /\ starting_map = STARTING_MAPS[1]
    /\ community_prefix = STARTING_MAPS[1][1]
    /\ max_attempts = DEFAULT_MAX_ATTEMPTS
    /\ NoCrawl /\ NoProbe /\ NoHybrid /\ NoHistory /\ NoExtract

NextMain ==
    \/ Setup
    \/ CallHybrid
    \/ CrawlStep
    \/ CrawlReturn
    \/ StartProbe
    \/ ProbeStep
    \/ StartPhase3
    \/ Phase3Step
    \/ StartPhase4
    \/ Phase4Step
    \/ HybridReturn
    \/ AddTotals
    \/ MainSummary

SpecMain == InitMain /\ [][NextMain]_vars

\* crawl_plat_maps under the scheduling of the single thread of control: a
\* step that can be taken is taken.  The call itself is a step, which picks
\* the starting conditions and runs lines 257-261.
InitIdle ==
    /\ mode = "crawl"
    /\ pc = "idle"
    /\ origin = {}
    /\ store = {}
    /\ community_prefix = 1
    /\ starting_map = <<1, 1>>
    /\ content = [id \in Universe(1) |-> DocBlank]
    /\ max_attempts = DEFAULT_MAX_ATTEMPTS
    /\ NoCrawl /\ NoProbe /\ NoHybrid /\ NoHistory /\ NoExtract /\ NoMain

CallCrawl ==
    /\ pc = "idle"
    /\ \E c \in Communities :
          /\ community_prefix' = c
          /\ starting_map' = <<c, 1>>
          /\ origin' \in SUBSET Universe(c)
          /\ store' \in SUBSET Universe(c)
          /\ content' \in [Universe(c) -> DocPool]
          /\ queue' = <<(<<c, 1>>)>>
          /\ ever_queued' = {<<c, 1>>}
    /\ processed' = {}
    /\ failed' = {}
    /\ pc' = "crawl"
    /\ UNCHANGED <<mode, crawl_result, run, processed1, failed1, max_attempts,
                   i, discovered, consecutive_failures, last_attempt, todo,
                   newly_discovered, additional_processed, additional_failed,
                   totals, calls, requested, fetch_failed, refetched, pending,
                   undelayed, bad_enqueue, bad_success, store_hit_net,
                   call_count, fail_count, ext_map, ext_doc, ext_result,
                   ext_done, mkdir_ok, output_dir_ready, remaining,
                   total_processed, total_failed>>

NextCrawlFair ==
    \/ CallCrawl
    \/ CrawlStep
    \/ CrawlReturn
    \/ CrawlAgain

SpecCrawlFair == InitIdle /\ [][NextCrawlFair]_vars /\ WF_vars(NextCrawlFair)

(***************************************************************************)
(* Properties                                                              *)
(***************************************************************************)
NoDuplicates(s) == \A a, b \in 1..Len(s) : s[a] = s[b] => a = b

\* C1: the traversal appends an ID to the queue only when it is, at that
\* moment, neither processed, nor failed, nor queued; so the queue never
\* holds an ID twice.
C1_FrontierMembership ==
    /\ bad_enqueue = {}
    /\ NoDuplicates(queue)

C1_Witness ==
    /\ mode = "crawl"
    /\ Len(queue) >= 2
    /\ processed # {}
    /\ failed # {}

\* C2 as stated: the second run ends with the processed set of the first and
\* has issued no network request at all.
C2_Original ==
    (mode = "crawl" /\ run = 2 /\ pc = "crawl_done")
        => (processed = processed1 /\ requested = {})

\* C2 amended: the second run ends with the processed and failed sets of the
\* first; it requests from the origin exactly the IDs that failed in the
\* first run, each of which fails again, and takes the file-exists skip path
\* for every processed ID, so that no artifact is fetched anew.
C2_Idempotent ==
    (mode = "crawl" /\ run = 2)
        => /\ requested \subseteq failed1
           /\ requested \cap origin = {}
           /\ requested \cap processed = {}
           /\ (pc = "crawl_done" =>
                 /\ processed = processed1
                 /\ failed = failed1
                 /\ requested = failed1)

C2_Witness ==
    /\ mode = "crawl"
    /\ run = 2
    /\ pc = "crawl_done"
    /\ Cardinality(processed) >= 2
    /\ failed1 # {}
    /\ processed \ requested # {}

Obtainable(n) == <<community_prefix, n>> \in origin \cup store

\* IDs 1..k are obtainable and k+1..k+cutoff are not.
SequenceEndsAt(k) ==
    /\ \A n \in 1..k : Obtainable(n)
    /\ \A n \in (k + 1)..(k + max_consecutive_failures) : ~Obtainable(n)

FirstIds(k) == {<<community_prefix, n>> : n \in 1..k}

Min(a, b) == IF a <= b THEN a ELSE b

\* Attempts are made in ascending order, none beyond max_attempts, none
\* once the failure streak has reached the cutoff.
ProbeOrder ==
    /\ last_attempt <= max_attempts
    /\ \A id \in calls : id[2] <= last_attempt
    /\ (consecutive_failures >= max_consecutive_failures => pc = "probe_done")

\* C3 as stated: whenever IDs 1..k are obtainable and k+1..k+cutoff are not,
\* the last attempt is k+cutoff and the returned set is {1..k}.
C3_Original ==
    (mode = "probe" /\ pc = "probe_done")
        => \A k \in 0..MaxSeq :
              SequenceEndsAt(k)
                  => /\ last_attempt = k + max_consecutive_failures
                     /\ discovered = FirstIds(k)

\* C3 amended: the prober attempts sequence numbers in ascending order and
\* none beyond max_attempts or after the cutoff is reached; with IDs 1..k
\* obtainable and k+1..k+cutoff not, the last attempt is k+cutoff and the
\* returned set is {1..k} provided k+cutoff <= max_attempts; otherwise the
\* sweep runs to max_attempts and returns {1..min(k, max_attempts)}.
C3_ProbeStops ==
    mode = "probe"
        => /\ ProbeOrder
           /\ pc = "probe_done" =>
                \A k \in 0..MaxSeq :
                   SequenceEndsAt(k) =>
                      IF k + max_consecutive_failures <= max_attempts
                      THEN /\ last_attempt = k + max_consecutive_failures
                           /\ discovered = FirstIds(k)
                      ELSE /\ i = max_attempts + 1
                           /\ discovered = FirstIds(Min(k, max_attempts))

C3_Witness ==
    /\ mode = "probe"
    /\ pc = "probe_done"
    /\ SequenceEndsAt(3)
    /\ store = origin
    /\ Cardinality(requested) >= 12
    /\ last_attempt = 13
    /\ max_attempts > 13

\* C4: no fetch attempt is made while the previous one has not yet been
\* followed by a delay.
C4_Throttle == undelayed = {}

\* C5: within one hybrid run, download_pdf is never called again for an ID
\* for which it has returned failure.
C5_NoRefetch == mode = "hybrid" => refetched = {}

\* C6: the list returned for a document never contains the document's ID.
C6_NoSelf == ext_done => ext_map \notin Range(ext_result)

\* C7: every returned ID has the community of the source document.
C7_SameCommunity ==
    ext_done => \A ref \in Range(ext_result) : ref[1] = ext_map[1]

\* C8: 001-01 with the text "002 003-04" yields exactly [001-02, 001-03].
C8_Scenario ==
    (ext_done /\ ext_map = <<1, 1>> /\ ext_doc = DocScenario)
        => ext_result = <<(<<1, 2>>), (<<1, 3>>)>>

Readable(doc) == doc.open_ok /\ \A k \in 1..Len(doc.pages) : doc.pages[k].ok

\* The candidates of passes 1-2 (deduplicated, without the document itself).
PassCandidates(current_map, doc) ==
    Range(ExcludeCurrent(ScanPages(current_map, doc.pages, <<>>).references,
                         current_map))

OwnNeighbours(current_map) ==
    {<<current_map[1], current_map[2] + offset>> :
        offset \in {o \in {-1, 1, 10, -10} :
                        1 <= current_map[2] + o /\ current_map[2] + o <= 99}}

\* C9: with fewer than 3 candidates from passes 1-2 the result is those
\* candidates plus the own-community IDs s-1, s+1, s+10, s-10 within [1, 99];
\* with 3 or more it is those candidates alone.
C9_Fallback ==
    (ext_done /\ Readable(ext_doc))
        => LET base == PassCandidates(ext_map, ext_doc)
           IN Range(ext_result) =
                 IF Cardinality(base) < 3
                 THEN base \cup OwnNeighbours(ext_map)
                 ELSE base

\* C10: download_pdf for a stored ID returns success without a network
\* request, and a success always leaves the artifact in the store.
C10_Gateway ==
    /\ bad_success = {}
    /\ store_hit_net = {}

C10_Witness ==
    /\ mode = "hybrid"
    /\ pc = "done"
    /\ calls \ requested # {}
    /\ requested \cap store # {}
    /\ requested \ store # {}

\* C11: every ID handed to download_pdf during a hybrid run has the
\* community of the starting map.
C11_CommunityBound ==
    mode = "hybrid" => \A id \in calls : id[1] = community_prefix

C11_Witness ==
    /\ mode = "hybrid"
    /\ pc = "done"
    /\ Cardinality(calls) >= 3
    /\ additional_processed + additional_failed > 0
    /\ \E id \in processed :
          \E ref \in Range(extract_map_references(id, content[id])) :
              ref[1] # community_prefix

\* C12: the candidates collected in phase 3 are of the run's community, were
\* absent from the store when collected, and are listed once each.
C12_Candidates ==
    (mode = "hybrid" /\ pc = "phase3")
        => /\ NoDuplicates(newly_discovered)
           /\ \A ref \in Range(newly_discovered) :
                 ref[1] = community_prefix /\ ref \notin store

\* C13: the failure total returned by the hybrid is the number of fetches
\* that failed in the run, and the processed total is the traversal count
\* plus the size of the discovered set plus the phase-4 successes.
C13_Totals ==
    (mode = "hybrid" /\ pc = "done")
        => /\ totals[2] = fail_count
           /\ totals[1] = crawl_result[1] + Cardinality(discovered)
                             + additional_processed

\* C14: when the document cannot be opened or one of its pages cannot be
\* read, the extractor returns the empty list.
C14_FailureIsEmpty ==
    (ext_done /\ ~Readable(ext_doc)) => ext_result = <<>>

\* C15: when the output directory cannot be set up the run aborts without
\* any fetch, and every fetch comes after a successful setup.
C15_SetupFirst ==
    mode = "main"
        => /\ (call_count > 0 => output_dir_ready)
           /\ (~mkdir_ok => call_count = 0 /\ pc \in {"main", "aborted"})

C15_Witness ==
    /\ mode = "main"
    /\ pc = "aborted"
    /\ ~mkdir_ok
    /\ origin # {}

\* C16: at the head of the traversal loop processed, failed and the queued
\* IDs are pairwise disjoint; an ID is in processed only after a successful
\* fetch and in failed only after a failed one.
C16_Disjoint ==
    (mode = "crawl" /\ pc = "crawl")
        => /\ processed \cap failed = {}
           /\ processed \cap Range(queue) = {}
           /\ failed \cap Range(queue) = {}
           /\ processed \subseteq (calls \ fetch_failed) \cap store
           /\ failed \subseteq fetch_failed

C16_Witness ==
    /\ mode = "crawl"
    /\ pc = "crawl"
    /\ Cardinality(processed) >= 2
    /\ failed # {}
    /\ queue # <<>>

\* The numerals the short-numeral pass may keep: two-digit, in [1, 50].
ShortNumerals(full_text) ==
    {num \in Range(two_digit_matches(full_text)) : 1 <= num /\ num <= 50}

\* C17: for a document of community c the short-numeral pass yields c-n for
\* every bare two-digit numeral n in [1, 50] and nothing else, and those
\* candidates (the document itself apart) are in the result.
C17_ShortNumerals ==
    (ext_done /\ Readable(ext_doc))
        => \A k \in 1..Len(ext_doc.pages) :
              LET full_text == FullText(ext_doc.pages[k])
                  expected == {<<ext_map[1], num>> :
                                  num \in ShortNumerals(full_text)}
              IN /\ Range(FormatAll(ext_map,
                              SetIterOrder(found_numbers(full_text))))
                       = expected
                 /\ expected \ {ext_map} \subseteq Range(ext_result)

\* C18: a traversal step whose fetch fails adds the dequeued ID to failed
\* and changes neither processed nor the store nor the rest of the queue; a
\* step that dequeues a processed or failed ID changes neither set and
\* fetches nothing.
C18_FailureFrame ==
    [][(mode = "crawl" /\ pc = "crawl" /\ queue # <<>>)
          => /\ (fail_count' > fail_count
                   => /\ failed' = failed \cup {Head(queue)}
                      /\ processed' = processed
                      /\ queue' = Tail(queue)
                      /\ store' = store
                      /\ call_count' = call_count + 1)
             /\ (Head(queue) \in processed \cup failed
                   => /\ processed' = processed
                      /\ failed' = failed
                      /\ call_count' = call_count)]_vars

C18_Witness ==
    /\ mode = "crawl"
    /\ pc = "crawl"
    /\ run = 1
    /\ fail_count >= 1
    /\ Cardinality(failed) = fail_count
    /\ processed # {}
    /\ Len(queue) >= 1

ProbeId(n) == <<community_prefix, n>>

\* The current failure streak is made of failed fetches only, and the
\* sequence number before it was a success or an existing file.
StreakIsFailures ==
    /\ \A n \in (i - consecutive_failures)..(i - 1) :
          ProbeId(n) \in fetch_failed /\ ProbeId(n) \notin store
    /\ (i - consecutive_failures - 1 >= 1
          => ProbeId(i - consecutive_failures - 1) \in store)

\* The sweep was left by the break of line 351.
StoppedEarly ==
    /\ pc = "probe_done"
    /\ consecutive_failures >= max_consecutive_failures

\* C19: an ID already in the store is recorded as discovered without a fetch
\* and resets the failure streak; the sweep stops early only after cutoff
\* failed fetches in a row, with no success or existing file among them.
C19_ExistingResets ==
    /\ [](mode = "probe"
            => /\ (pc = "probe" => StreakIsFailures)
               /\ (StoppedEarly
                     => \A n \in (i - max_consecutive_failures + 1)..i :
                           ProbeId(n) \in fetch_failed
                           /\ ProbeId(n) \notin store))
    /\ [][(mode = "probe" /\ pc = "probe" /\ ProbeId(i) \in store)
             => /\ discovered' = discovered \cup {ProbeId(i)}
                /\ consecutive_failures' = 0
                /\ call_count' = call_count]_vars

C19_Witness ==
    /\ mode = "probe"
    /\ StoppedEarly
    /\ \E id \in discovered \ calls :
          \E f \in fetch_failed : f[2] < id[2]

\* C20: every traversal reaches the terminal state; there the queue is
\* empty, every ID that was ever queued is in exactly one of processed and
\* failed, and the pair returned is (|processed|, |failed|).
C20_Terminates ==
    /\ (mode = "crawl" /\ pc = "crawl") ~> (pc = "crawl_done")
    /\ []((mode = "crawl" /\ pc = "crawl_done")
            => /\ queue = <<>>
               /\ ever_queued = processed \cup failed
               /\ processed \cap failed = {}
               /\ crawl_result = <<Cardinality(processed),
                                   Cardinality(failed)>>)

C20_Witness ==
    /\ mode = "crawl"
    /\ pc = "crawl_done"
    /\ Cardinality(ever_queued) >= 3
    /\ processed # {}
    /\ failed # {}

\* C21: no step of a run removes a file from the store, and every ID in
\* the traversal's processed set and in the prober's discovered set has its
\* file in the store.
C21_StoreGrows ==
    /\ [][store \subseteq store']_vars
    /\ [](mode = "hybrid"
            => processed \subseteq store /\ discovered \subseteq store)

C21_Witness ==
    /\ mode = "hybrid"
    /\ pc = "done"
    /\ Cardinality(processed) >= 2
    /\ discovered \ processed # {}
    /\ (calls \ fetch_failed) \cap requested # {}
    /\ fetch_failed # {}

====
